---- MODULE Spec2Model ----
(***************************************************************************)
(* State-machine model of the VitalVoice client core (src/App.tsx): the    *)
(* usage ledger kept in localStorage, the audio validator, the signal      *)
(* monitor and the recording / upload / face-scan flows around them.       *)
(* Time is in milliseconds, as Date.now() reports it, counted from an      *)
(* origin of the model's choosing.                                         *)
(***************************************************************************)
EXTENDS Integers, Sequences, FiniteSets, TLC

\* ------------------------------------------------------------------------
\* Program constants
\* ------------------------------------------------------------------------
DAILY_ANALYSIS_LIMIT == 5

\* 24 * 60 * 60 * 1000 in checkUsageLimit
DayMs == 24 * 60 * 60 * 1000

\* ------------------------------------------------------------------------
\* Bounds
\* ------------------------------------------------------------------------
\* the clock runs over the instants around each day boundary up to MaxDays
MaxDays == 1
\* longest persisted list
MaxLog == 6

\* longest channel of a decoded test recording, in samples
MaxSamples == 11

\* startRecording calls in progress at one time (awaiting permission,
\* recording, or in onstop), together with the streams left live
MaxSessions == 1
\* the same, where overlapping startRecording calls are looked at
MaxOverlap == 2
\* updateVolume callbacks scheduled with requestAnimationFrame at one time
MaxFrames == 2
\* camera requests of startCamera awaiting their answer at one time
MaxCameras == 1
\* submissions awaiting their FileReader or analyzeHealth at one time
MaxPending == 1
\* most sample demonstrations whose timeout is pending
MaxDemos == 1
\* most push-to-talk sessions of the chat that have not ended
MaxChatSessions == 2
\* most chatWithHealthAssistant calls awaiting their answer
MaxReplies == 2

VARIABLES
    storage,        \* localStorage[STORAGE_KEY_USAGE]
    storageFault,   \* which localStorage operation throws, if any
    now,            \* Date.now()
    lastCall,       \* the last ledger call made on its own: input, result, effect
    testBlob,       \* a recording handed to validateAudioBlob directly
    lastValidation, \* the last validateAudioBlob call: its input and outcome
    binData,        \* the analyser's frequency snapshot read by updateVolume
    audioLevel,     \* React state audioLevel, as a fraction num / den
    recordingQuality,   \* React state recordingQuality
    recordingMessage,   \* React state recordingMessage
    rafScheduled,       \* updateVolume callbacks requestAnimationFrame holds
    animationFrameRef,  \* animationFrameRef.current: "null", or the handle of
                        \* a callback still scheduled ("live") or not ("stale")
    screen,             \* React state screen
    showLimitModal,     \* React state showLimitModal
    audioBlob,          \* React state audioBlob
    isRecording,        \* React state isRecording
    timer,              \* React state timer
    recordingError,     \* React state recordingError
    uploadedAudioFile,  \* React state uploadedAudioFile
    mediaRecorderRef,   \* mediaRecorderRef.current: 0 for null, else the session
                        \* of the recorder, or StaleRef
    audioChunksRef,     \* audioChunksRef.current
    sessions,           \* the recording sessions: stream, recorder, onstop run
    cameras,            \* startCamera calls awaiting getUserMedia, each with the
                        \* audioBlob its performAnalysis closure holds
    analyses,           \* submissions between recordUsage and their outcome
    calls,              \* how often recordUsage was called for each artifact
                        \* that is still held (a recorded blob, the upload)
    alerts,             \* the alert() dialogs the last handler raised
    sampleTimeouts,     \* pending setTimeout callbacks of loadSampleData
    chatHistory,        \* React state chatHistory: the role of each message
    chatInput,          \* React state chatInput after trim(): "" or a text
    isChatLoading,      \* React state isChatLoading
    isChatRecording,    \* React state isChatRecording
    chatMediaRecorderRef,   \* chatMediaRecorderRef.current: 0 for null, else
                            \* the chat session of the recorder
    chatAudioChunksRef,     \* chatAudioChunksRef.current
    chatSessions,       \* the push-to-talk sessions: stream, recorder, onstop
                        \* run, and the chatHistory their closures hold
    chatReplies         \* chatWithHealthAssistant calls awaiting their answer

ledgerVars == <<storage, storageFault, now, lastCall>>
displayVars == <<binData, audioLevel, recordingQuality, recordingMessage>>
frameVars == <<rafScheduled, animationFrameRef>>
monitorVars == <<binData, audioLevel, recordingQuality, recordingMessage,
                 rafScheduled, animationFrameRef>>
validatorVars == <<testBlob, lastValidation>>
chatVars == <<chatHistory, chatInput, isChatLoading, isChatRecording,
              chatMediaRecorderRef, chatAudioChunksRef, chatSessions, chatReplies>>
flowVars == <<screen, showLimitModal, audioBlob, isRecording, timer, recordingError,
              uploadedAudioFile, mediaRecorderRef, audioChunksRef, sessions,
              cameras, analyses, calls, sampleTimeouts>>
pageVars == <<screen, showLimitModal, audioBlob, isRecording, timer, recordingError,
              uploadedAudioFile, mediaRecorderRef, audioChunksRef, sessions,
              cameras, analyses, calls, sampleTimeouts,
              chatHistory, chatInput, isChatLoading, isChatRecording,
              chatMediaRecorderRef, chatAudioChunksRef, chatSessions, chatReplies>>
appVars == <<screen, showLimitModal, audioBlob, isRecording, timer, recordingError,
             uploadedAudioFile, mediaRecorderRef, audioChunksRef, sessions,
             cameras, analyses, calls, alerts, sampleTimeouts,
             chatHistory, chatInput, isChatLoading, isChatRecording,
             chatMediaRecorderRef, chatAudioChunksRef, chatSessions, chatReplies>>
vars == <<storage, storageFault, now, lastCall, testBlob, lastValidation,
          binData, audioLevel, recordingQuality, recordingMessage,
          rafScheduled, animationFrameRef,
          screen, showLimitModal, audioBlob, isRecording, timer, recordingError,
          uploadedAudioFile, mediaRecorderRef, audioChunksRef, sessions,
          cameras, analyses, calls, alerts, sampleTimeouts,
          chatHistory, chatInput, isChatLoading, isChatRecording,
          chatMediaRecorderRef, chatAudioChunksRef, chatSessions, chatReplies>>

\* ------------------------------------------------------------------------
\* Helpers on sequences
\* ------------------------------------------------------------------------
RECURSIVE FilterSeqInclusive(_, _)
\* filter with ts >= bound
FilterSeqInclusive(log, bound) ==
    IF log = <<>> THEN <<>>
    ELSE IF Head(log) >= bound
         THEN <<Head(log)>> \o FilterSeqInclusive(Tail(log), bound)
         ELSE FilterSeqInclusive(Tail(log), bound)

RECURSIVE FilterSeq(_, _)
\* Array.prototype.filter with the predicate ts > bound
FilterSeq(log, bound) ==
    IF log = <<>> THEN <<>>
    ELSE IF Head(log) > bound
         THEN <<Head(log)>> \o FilterSeq(Tail(log), bound)
         ELSE FilterSeq(Tail(log), bound)

\* ------------------------------------------------------------------------
\* localStorage and JSON
\* ------------------------------------------------------------------------
\* The value under the key: absent (getItem gives null), the empty string,
\* a text that is not JSON, JSON that is not an array, or a JSON array
Absent == [kind |-> "absent", log |-> <<>>]
EmptyText == [kind |-> "empty", log |-> <<>>]
Garbage == [kind |-> "garbage", log |-> <<>>]
NonList == [kind |-> "nonlist", log |-> <<>>]
ListValue(log) == [kind |-> "list", log |-> log]

Faults == {"none", "read", "write"}

\* localStorage.getItem: throws when reading is denied
GetItem(st, fault) ==
    IF fault = "read" THEN [threw |-> TRUE, raw |-> Absent]
    ELSE [threw |-> FALSE, raw |-> st]

\* localStorage.setItem: throws when writing is denied, else replaces the value
SetItem(st, fault, text) ==
    IF fault = "write" THEN [threw |-> TRUE, storage |-> st]
    ELSE [threw |-> FALSE, storage |-> text]

\* raw ? JSON.parse(raw) : []   (null and "" are falsy)
ParseLog(raw) ==
    CASE raw.kind \in {"absent", "empty"} -> [threw |-> FALSE, isList |-> TRUE, log |-> <<>>]
      [] raw.kind = "garbage" -> [threw |-> TRUE, isList |-> FALSE, log |-> <<>>]
      [] raw.kind = "nonlist" -> [threw |-> FALSE, isList |-> FALSE, log |-> <<>>]
      [] raw.kind = "list" -> [threw |-> FALSE, isList |-> TRUE, log |-> raw.log]

\* JSON.stringify of a number array
JSONStringify(log) == ListValue(log)

\* ------------------------------------------------------------------------
\* Usage ledger
\* ------------------------------------------------------------------------
\* the try block of a checkUsageLimit that enters the attempt it allows
CheckUsageLimitTryConsuming(st, fault, t) ==
    LET got == GetItem(st, fault) IN
    IF got.threw THEN [threw |-> TRUE, ret |-> FALSE, storage |-> st]
    ELSE LET parsed == ParseLog(got.raw) IN
         IF parsed.threw \/ ~parsed.isList
         THEN [threw |-> TRUE, ret |-> FALSE, storage |-> st]
         ELSE LET oneDayAgo == t - DayMs
                  validLog == FilterSeq(parsed.log, oneDayAgo)
                  allowed == Len(validLog) < DAILY_ANALYSIS_LIMIT
                  put == SetItem(st, fault, JSONStringify(
                            IF allowed THEN Append(validLog, t) ELSE validLog))
              IN IF put.threw
                 THEN [threw |-> TRUE, ret |-> FALSE, storage |-> put.storage]
                 ELSE [threw |-> FALSE, ret |-> allowed, storage |-> put.storage]

\* The try block of checkUsageLimit; threw = an exception reached the catch
CheckUsageLimitTry(st, fault, t) ==
    LET got == GetItem(st, fault) IN
    IF got.threw THEN [threw |-> TRUE, ret |-> FALSE, storage |-> st]
    ELSE LET parsed == ParseLog(got.raw) IN
         IF parsed.threw \/ ~parsed.isList
         THEN [threw |-> TRUE, ret |-> FALSE, storage |-> st]
         ELSE LET oneDayAgo == t - DayMs
                  validLog == FilterSeq(parsed.log, oneDayAgo)
                  put == SetItem(st, fault, JSONStringify(validLog))
              IN IF put.threw
                 THEN [threw |-> TRUE, ret |-> FALSE, storage |-> put.storage]
                 ELSE [threw |-> FALSE,
                       ret |-> Len(validLog) < DAILY_ANALYSIS_LIMIT,
                       storage |-> put.storage]

\* checkUsageLimit failing closed
CheckUsageLimitFailClosed(st, fault, t) ==
    LET body == CheckUsageLimitTry(st, fault, t) IN
    [ret |-> IF body.threw THEN FALSE ELSE body.ret,
     storage |-> body.storage, escaped |-> FALSE]

\* checkUsageLimit: the catch logs and returns true
CheckUsageLimit(st, fault, t) ==
    LET body == CheckUsageLimitTry(st, fault, t) IN
    [ret |-> IF body.threw THEN TRUE ELSE body.ret,
     storage |-> body.storage, escaped |-> FALSE]

RecordUsageInFront(st, fault, t) ==
    LET got == GetItem(st, fault) IN
    IF got.threw THEN st
    ELSE LET parsed == ParseLog(got.raw) IN
         IF parsed.threw \/ ~parsed.isList THEN st
         ELSE SetItem(st, fault, JSONStringify(<<t>> \o parsed.log)).storage

\* recordUsage: the catch logs and returns
RecordUsage(st, fault, t) ==
    LET got == GetItem(st, fault) IN
    IF got.threw THEN st
    ELSE LET parsed == ParseLog(got.raw) IN
         IF parsed.threw \/ ~parsed.isList THEN st
         ELSE SetItem(st, fault, JSONStringify(Append(parsed.log, t))).storage

\* ------------------------------------------------------------------------
\* Audio validator
\* ------------------------------------------------------------------------
\* Sample amplitudes are in thousandths (0.01 is 10, 0.02 is 20, 1.0 is 1000);
\* a chunk is one encoded piece of audio as MediaRecorder or a file delivers it:
\* its byte size, whether decodeAudioData can decode it, and what it decodes to
\* (sampleRate in samples per second, channelData the first channel).
ErrEmpty == "Recording failed (empty file)."
ErrTooShort == "Recording too short. Minimum 3 seconds required for accurate analysis."
ErrTooQuiet == "Recording too quiet. Please speak louder or move closer to the microphone."
ErrNoSpeech == "No speech detected. Please speak clearly."
ErrDecode == "Could not validate audio file."
NoError == "undefined"

RECURSIVE BlobSize(_)
\* Blob.size of new Blob(chunks): the sizes of the parts added up
BlobSize(chunks) ==
    IF chunks = <<>> THEN 0 ELSE Head(chunks).size + BlobSize(Tail(chunks))

RECURSIVE ConcatChannels(_)
ConcatChannels(chunks) ==
    IF chunks = <<>> THEN <<>>
    ELSE Head(chunks).channelData \o ConcatChannels(Tail(chunks))

\* audioContext.decodeAudioData(await blob.arrayBuffer()): rejects unless every
\* part decodes; the parts play one after the other at the first part's rate
DecodeAudioData(chunks) ==
    IF chunks = <<>> \/ \E i \in 1..Len(chunks) : ~chunks[i].decodable
    THEN [threw |-> TRUE, sampleRate |-> 1, channelData |-> <<>>]
    ELSE [threw |-> FALSE, sampleRate |-> chunks[1].sampleRate,
          channelData |-> ConcatChannels(chunks)]

Abs(x) == IF x < 0 THEN -x ELSE x

RECURSIVE SumSquares(_)
\* the loop's sumSquares += sample * sample
SumSquares(data) ==
    IF data = <<>> THEN 0 ELSE Head(data) * Head(data) + SumSquares(Tail(data))

\* the loop's speechSamples++ when Math.abs(sample) > silenceThreshold (0.01)
SpeechSamplesAbove(data, threshold) ==
    Cardinality({i \in 1..Len(data) : Abs(data[i]) > threshold})

\* const silenceThreshold = 0.01, in thousandths
silenceThreshold == 10

\* the checks with the energy check ahead of the duration check
CheckDecodedEnergyFirst(buf) ==
    LET n == Len(buf.channelData)
        sumSquares == SumSquares(buf.channelData)
        speechSamples == SpeechSamplesAbove(buf.channelData, silenceThreshold)
    IN IF n > 0 /\ sumSquares < 20 * 20 * n THEN [isValid |-> FALSE, error |-> ErrTooQuiet]
       ELSE IF n < 3 * buf.sampleRate THEN [isValid |-> FALSE, error |-> ErrTooShort]
       ELSE IF n > 0 /\ speechSamples * 100 < 10 * n THEN [isValid |-> FALSE, error |-> ErrNoSpeech]
       ELSE [isValid |-> TRUE, error |-> NoError]

\* the checks with the thresholds themselves rejected (<= for <)
CheckDecodedStrict(buf) ==
    LET n == Len(buf.channelData)
        sumSquares == SumSquares(buf.channelData)
        speechSamples == SpeechSamplesAbove(buf.channelData, silenceThreshold)
    IN IF n <= 3 * buf.sampleRate THEN [isValid |-> FALSE, error |-> ErrTooShort]
       ELSE IF n > 0 /\ sumSquares <= 20 * 20 * n THEN [isValid |-> FALSE, error |-> ErrTooQuiet]
       ELSE IF n > 0 /\ speechSamples * 100 <= 10 * n THEN [isValid |-> FALSE, error |-> ErrNoSpeech]
       ELSE [isValid |-> TRUE, error |-> NoError]

\* the three checks on a decoded buffer, in the order of the code:
\*   duration < 3.0             as  length < 3 * sampleRate
\*   sqrt(sumSquares/n) < 0.02  as  sumSquares < 20 * 20 * n  (thousandths squared)
\*   speechSamples/n * 100 < 10 as  speechSamples * 100 < 10 * n
\* an empty channel makes rms and speechPercentage NaN, and NaN < x is false
CheckDecoded(buf) ==
    LET n == Len(buf.channelData)
        sumSquares == SumSquares(buf.channelData)
        speechSamples == SpeechSamplesAbove(buf.channelData, silenceThreshold)
    IN IF n < 3 * buf.sampleRate THEN [isValid |-> FALSE, error |-> ErrTooShort]
       ELSE IF n > 0 /\ sumSquares < 20 * 20 * n THEN [isValid |-> FALSE, error |-> ErrTooQuiet]
       ELSE IF n > 0 /\ speechSamples * 100 < 10 * n THEN [isValid |-> FALSE, error |-> ErrNoSpeech]
       ELSE [isValid |-> TRUE, error |-> NoError]

\* validateAudioBlob(new Blob(chunks)); ctxThrows: the AudioContext constructor,
\* which stands outside the try, throws.  threw = the returned promise rejects
ValidateAudioBlob(chunks, ctxThrows) ==
    IF BlobSize(chunks) = 0
    THEN [threw |-> FALSE, isValid |-> FALSE, error |-> ErrEmpty]
    ELSE IF ctxThrows
    THEN [threw |-> TRUE, isValid |-> FALSE, error |-> NoError]
    ELSE LET buf == DecodeAudioData(chunks) IN
         IF buf.threw THEN [threw |-> FALSE, isValid |-> FALSE, error |-> ErrDecode]
         ELSE [threw |-> FALSE] @@ CheckDecoded(buf)

\* ------------------------------------------------------------------------
\* Signal monitor
\* ------------------------------------------------------------------------
\* analyser.fftSize = 256; frequencyBinCount is half of it
fftSize == 256
FrequencyBinCount == fftSize \div 2

RECURSIVE SumRange(_, _, _)
\* data[lo] + ... + data[hi], summed by halves
SumRange(data, lo, hi) ==
    IF lo > hi THEN 0
    ELSE IF lo = hi THEN data[lo]
    ELSE LET mid == (lo + hi) \div 2 IN
         SumRange(data, lo, mid) + SumRange(data, mid + 1, hi)

\* dataArray.reduce((a, b) => a + b, 0)
SumBytes(data) == SumRange(data, 1, Len(data))

MsgGood == "Perfect volume"
MsgLow == "Speak louder..."
MsgSilent == "Listening..."

\* the state updateVolume sets from one snapshot: avg = sum / length compared
\* with 30 and 10 as sum against 30 * length and 10 * length, and
\* normalized = Math.min(1, avg / 60) as the fraction num / den
VolumeFeedbackInclusive(data) ==
    LET sum == SumBytes(data)
        n == Len(data)
    IN [level |-> IF sum >= 60 * n THEN [num |-> 1, den |-> 1]
                  ELSE [num |-> sum, den |-> 60 * n],
        quality |-> IF sum >= 30 * n THEN "good"
                    ELSE IF sum >= 10 * n THEN "low" ELSE "silent",
        message |-> IF sum >= 30 * n THEN MsgGood
                    ELSE IF sum >= 10 * n THEN MsgLow ELSE MsgSilent]

VolumeFeedback(data) ==
    LET sum == SumBytes(data)
        n == Len(data)
    IN [level |-> IF sum >= 60 * n THEN [num |-> 1, den |-> 1]
                  ELSE [num |-> sum, den |-> 60 * n],
        quality |-> IF sum > 30 * n THEN "good"
                    ELSE IF sum > 10 * n THEN "low" ELSE "silent",
        message |-> IF sum > 30 * n THEN MsgGood
                    ELSE IF sum > 10 * n THEN MsgLow ELSE MsgSilent]

\* ------------------------------------------------------------------------
\* Initial values shared by the specifications
\* ------------------------------------------------------------------------
NoTestBlob == [chunks |-> <<>>, ctxThrows |-> FALSE]

NoValidation == [ran |-> FALSE, chunks |-> <<>>, ctxThrows |-> FALSE,
                 threw |-> FALSE, isValid |-> FALSE, error |-> NoError]

ValidationOf(chunks, ctxThrows) ==
    [ran |-> TRUE, chunks |-> chunks, ctxThrows |-> ctxThrows]
    @@ ValidateAudioBlob(chunks, ctxThrows)

MonitorIdle ==
    /\ binData = <<>>
    /\ audioLevel = [num |-> 0, den |-> 1]
    /\ recordingQuality = "idle"
    /\ recordingMessage = MsgSilent
    /\ rafScheduled = 0
    /\ animationFrameRef = "null"

\* useState(null) for audioBlob and recordingError
\* a recorded blob is known by an id; validated and cancelled tell how it came
\* about: validateAudioBlob accepted it, its session was cancelled
NoBlob == [id |-> 0, validated |-> FALSE, cancelled |-> FALSE]

\* the ids of recorded blobs: one for the audioBlob state and one for each
\* closure or submission that may hold an older blob
ArtifactIds == 1..(1 + MaxCameras + MaxPending)

\* the id an uploaded file is submitted under
UploadId == 2 + MaxCameras + MaxPending
NoRecordingError == "null"
\* no alert() was raised
NoAlerts == <<>>
\* a chat session slot not in use; seen is the number of user messages in
\* the chatHistory its closures hold
FreeChatSlot == [phase |-> "free", tracksLive |-> FALSE, seen |-> 0,
                 released |-> FALSE]
\* the chat as the page is loaded
ChatIdle ==
    /\ chatHistory = <<>>
    /\ chatInput = ""
    /\ isChatLoading = FALSE
    /\ isChatRecording = FALSE
    /\ chatMediaRecorderRef = 0
    /\ chatAudioChunksRef = <<>>
    /\ chatSessions = [s \in 1..MaxChatSessions |-> FreeChatSlot]
    /\ chatReplies = 0
\* the texts of the alert() dialogs
MicrophoneRequired == "Microphone access is required."
AnalysisFailed == "Analysis failed. Please try again."
UploadFailed == "Validation analysis failed. Please check file format."
\* useState(null) for uploadedAudioFile
NoFile == [size |-> 0, decodable |-> FALSE, sampleRate |-> 0, channelData |-> <<>>]

\* useState(30) for timer, setTimer(30)
TimerBudget == 30

\* no session in this slot
NoVerdict == [isValid |-> FALSE, error |-> NoError]

FreeSlot == [phase |-> "free", tracksLive |-> FALSE, pending |-> NoVerdict,
             cancelled |-> FALSE]

NoCalls == [recordUsage |-> [a \in ArtifactIds \cup {UploadId} |-> 0]]

\* the component as first rendered: the useState and useRef initial values
AppLoaded ==
    /\ screen = "INTRO"
    /\ showLimitModal = FALSE
    /\ audioBlob = NoBlob
    /\ isRecording = FALSE
    /\ timer = TimerBudget
    /\ recordingError = NoRecordingError
    /\ uploadedAudioFile = NoFile
    /\ mediaRecorderRef = 0
    /\ audioChunksRef = <<>>
    /\ sessions = [s \in 1..MaxSessions |-> FreeSlot]
    /\ cameras = <<>>
    /\ analyses = <<>>
    /\ calls = NoCalls
    /\ alerts = NoAlerts
    /\ sampleTimeouts = 0
    /\ ChatIdle

\* ------------------------------------------------------------------------
\* The clock
\* ------------------------------------------------------------------------
Instants ==
    {t \in UNION {{d * DayMs - 1, d * DayMs, d * DayMs + 1} : d \in 0..MaxDays} : t >= 0}

\* Date.now() never runs backwards here
ClockAdvance ==
    /\ \E t \in Instants : t > now /\ now' = t
    /\ UNCHANGED <<storage, storageFault, lastCall, validatorVars, monitorVars, appVars>>

\* ------------------------------------------------------------------------
\* The ledger on its own: calls of checkUsageLimit and recordUsage
\* ------------------------------------------------------------------------
RECURSIVE SortedLogs(_)
\* the nondecreasing timestamp lists of length at most n: what repeated
\* recordUsage calls leave behind under a clock that does not run backwards
SortedLogs(n) ==
    IF n = 0 THEN {<<>>}
    ELSE LET shorter == SortedLogs(n - 1) IN
         shorter \cup
         UNION {{Append(l, t) : t \in {u \in Instants : n = 1 \/ u >= l[n - 1]}} :
                    l \in {s \in shorter : Len(s) = n - 1}}

StoredValues ==
    {Absent, EmptyText, Garbage, NonList}
    \cup {ListValue(l) : l \in SortedLogs(MaxLog)}

NoCall == [op |-> "none", ret |-> FALSE, escaped |-> FALSE, pre |-> Absent,
           fault |-> "none", at |-> 0,
           before |-> [op |-> "none", ret |-> FALSE, at |-> 0]]

\* what a call keeps of the call made before it
Before(call) == [op |-> call.op, ret |-> call.ret, at |-> call.at]

InitLedger ==
    /\ now \in Instants
    /\ storage \in {s \in StoredValues : \A i \in 1..Len(s.log) : s.log[i] <= now}
    /\ storageFault \in Faults
    /\ lastCall = NoCall
    /\ testBlob = NoTestBlob
    /\ lastValidation = NoValidation
    /\ MonitorIdle
    /\ AppLoaded

LedgerCheck ==
    LET r == CheckUsageLimit(storage, storageFault, now) IN
    /\ storage' = r.storage
    /\ lastCall' = [op |-> "check", ret |-> r.ret, escaped |-> r.escaped,
                    pre |-> storage, fault |-> storageFault, at |-> now,
                    before |-> Before(lastCall)]
    /\ UNCHANGED <<storageFault, now, validatorVars, monitorVars, appVars>>

LedgerRecord ==
    /\ Len(storage.log) < MaxLog
    /\ storage' = RecordUsage(storage, storageFault, now)
    /\ lastCall' = [op |-> "record", ret |-> FALSE, escaped |-> FALSE,
                    pre |-> storage, fault |-> storageFault, at |-> now,
                    before |-> Before(lastCall)]
    /\ UNCHANGED <<storageFault, now, validatorVars, monitorVars, appVars>>

NextLedger == LedgerCheck \/ LedgerRecord \/ ClockAdvance

SpecLedger == InitLedger /\ [][NextLedger]_vars

\* ------------------------------------------------------------------------
\* The validator on its own: validateAudioBlob applied to test recordings
\* ------------------------------------------------------------------------
\* k samples of amplitude a followed by n - k samples of amplitude b
Runs(a, k, b, n) == [i \in 1..n |-> IF i <= k THEN a ELSE b]

Amplitudes == {-1000, 0, 10, 11, 19, 20, 50}
SampleRates == {1, 2, 3}

TestChannels ==
    {Runs(a, k, b, n) : a \in Amplitudes, b \in Amplitudes,
                        k \in 0..MaxSamples, n \in 0..MaxSamples}

\* a 0-byte part decodes to nothing; a non-empty part may or may not decode
TestChunks ==
    {[size |-> 0, decodable |-> FALSE, sampleRate |-> 1, channelData |-> <<>>],
     [size |-> 1, decodable |-> FALSE, sampleRate |-> 1, channelData |-> <<>>]}
    \cup {[size |-> 1, decodable |-> TRUE, sampleRate |-> r, channelData |-> c] :
            r \in SampleRates, c \in TestChannels}

InitValidator ==
    /\ now = 0
    /\ storage = Absent
    /\ storageFault = "none"
    /\ lastCall = NoCall
    /\ testBlob \in [chunks : {<<>>} \cup {<<c>> : c \in TestChunks}, ctxThrows : BOOLEAN]
    /\ lastValidation = NoValidation
    /\ MonitorIdle
    /\ AppLoaded

\* validateAudioBlob called once on the test recording
Validate ==
    /\ ~lastValidation.ran
    /\ lastValidation' = ValidationOf(testBlob.chunks, testBlob.ctxThrows)
    /\ UNCHANGED <<ledgerVars, testBlob, monitorVars, appVars>>

NextValidator == Validate

SpecValidator == InitValidator /\ [][NextValidator]_vars

\* ------------------------------------------------------------------------
\* The monitor on its own: updateVolume applied to analyser snapshots
\* ------------------------------------------------------------------------
ByteLevels == {0, 10, 11, 30, 31, 60, 255}

Snapshots ==
    {Runs(a, k, b, FrequencyBinCount) :
        a \in ByteLevels, b \in ByteLevels, k \in 0..FrequencyBinCount}

\* setAudioLevel, setRecordingQuality and setRecordingMessage of updateVolume
ShowFeedback(f) ==
    /\ binData' = binData
    /\ audioLevel' = f.level
    /\ recordingQuality' = f.quality
    /\ recordingMessage' = f.message

\* the state updates of one updateVolume call on the snapshot data
UpdateVolumeOn(data) == ShowFeedback(VolumeFeedback(data))

\* the end of updateVolume: animationFrameRef.current =
\* requestAnimationFrame(updateVolume)
RequestFrame ==
    /\ rafScheduled' = rafScheduled + 1
    /\ animationFrameRef' = "live"

\* if (animationFrameRef.current) cancelAnimationFrame(animationFrameRef.current)
CancelFrame ==
    /\ rafScheduled' = IF animationFrameRef = "live" THEN rafScheduled - 1
                       ELSE rafScheduled
    /\ animationFrameRef' = IF animationFrameRef = "live" THEN "stale"
                            ELSE animationFrameRef

InitMonitor ==
    /\ now = 0
    /\ storage = Absent
    /\ storageFault = "none"
    /\ lastCall = NoCall
    /\ testBlob = NoTestBlob
    /\ lastValidation = NoValidation
    /\ binData \in Snapshots
    /\ audioLevel = [num |-> 0, den |-> 1]
    /\ recordingQuality = "idle"
    /\ recordingMessage = MsgSilent
    /\ rafScheduled = 0
    /\ animationFrameRef = "null"
    /\ AppLoaded

\* one updateVolume call on the analyser's current snapshot
MonitorFrame ==
    /\ recordingQuality = "idle"
    /\ UpdateVolumeOn(binData)
    /\ RequestFrame
    /\ UNCHANGED <<ledgerVars, validatorVars, appVars>>

NextMonitor == MonitorFrame

SpecMonitor == InitMonitor /\ [][NextMonitor]_vars

\* ------------------------------------------------------------------------
\* The application: recording, face prompt, upload and analysis
\* ------------------------------------------------------------------------
\* what the microphone delivers at stop, and what a user picks as a file:
\* nothing at all, 2.5 s of silence, and 4 s of speech at RMS 0.05 with half
\* the samples above the silence threshold
EmptyData == [size |-> 0, decodable |-> FALSE, sampleRate |-> 1, channelData |-> <<>>]
SilentShort == [size |-> 1, decodable |-> TRUE, sampleRate |-> 2,
                channelData |-> <<0, 0, 0, 0, 0>>]
GoodVoice == [size |-> 1, decodable |-> TRUE, sampleRate |-> 1,
              channelData |-> <<70, -70, 10, 10>>]

RecordedChunks == {EmptyData, SilentShort, GoodVoice}
UploadFiles == {EmptyData, GoodVoice}

RemoveAt(seq, i) == SubSeq(seq, 1, i - 1) \o SubSeq(seq, i + 1, Len(seq))

Slots == DOMAIN sessions

\* mediaRecorderRef.current holding a recorder that has stopped and whose
\* session is over
StaleRef == Cardinality(Slots) + 1

\* a startRecording call past the quota gate, awaiting getUserMedia
NewSession == [FreeSlot EXCEPT !.phase = "armed"]

\* Date.now() read at a call: a visit is short against the 24 h window, and
\* all its calls read the instant the page was loaded at
Readings == {now}

\* the artifacts something still refers to: the audioBlob state, the closures
\* of pending camera requests, the submissions under way
Alive(blob, cams, anas) ==
    {blob.id} \cup {cams[i].id : i \in 1..Len(cams)}
              \cup {anas[i].blob.id : i \in 1..Len(anas)}

\* a session is over once its recorder has stopped, onstop has ended and its
\* tracks are stopped
Over(sess, s) == sess[s].phase = "closed" /\ ~sess[s].tracksLive

\* the new values of the session table and of what holds blobs: sessions
\* that are over leave the table, and the calls counted for a blob go when
\* nothing holds the blob any more
Settle(sess, ref, blob, cams, anas, cl) ==
    LET alive == Alive(blob, cams, anas) IN
    /\ sessions' = [s \in Slots |-> IF Over(sess, s) THEN FreeSlot ELSE sess[s]]
    /\ mediaRecorderRef' = IF ref \in Slots /\ Over(sess, ref) THEN StaleRef ELSE ref
    /\ audioBlob' = blob
    /\ cameras' = cams
    /\ analyses' = anas
    /\ calls' = [recordUsage |-> [a \in DOMAIN cl.recordUsage |->
                                     IF a \in alive THEN cl.recordUsage[a] ELSE 0]]

\* --- navigation buttons -------------------------------------------------
\* renderIntro, Start Screening: setScreen(RECORDING)
GoRecording ==
    /\ UNCHANGED <<sampleTimeouts, chatVars>>
    /\ alerts' = NoAlerts
    /\ screen = "INTRO" /\ ~showLimitModal
    /\ screen' = "RECORDING"
    /\ UNCHANGED <<ledgerVars, validatorVars, monitorVars, showLimitModal, audioBlob,
                   isRecording, timer, recordingError, uploadedAudioFile,
                   mediaRecorderRef, audioChunksRef, sessions, cameras, analyses, calls>>

\* renderIntro, Upload Data: setScreen(UPLOAD_CONFIG)
GoUpload ==
    /\ UNCHANGED <<sampleTimeouts, chatVars>>
    /\ alerts' = NoAlerts
    /\ screen = "INTRO" /\ ~showLimitModal
    /\ screen' = "UPLOAD_CONFIG"
    /\ UNCHANGED <<ledgerVars, validatorVars, monitorVars, showLimitModal, audioBlob,
                   isRecording, timer, recordingError, uploadedAudioFile,
                   mediaRecorderRef, audioChunksRef, sessions, cameras, analyses, calls>>

\* --- the sample demonstration ---------------------------------------------
LoadSampleDataMetered ==
    /\ alerts' = NoAlerts
    /\ UNCHANGED chatVars
    /\ screen = "INTRO" /\ ~showLimitModal
    /\ sampleTimeouts < MaxDemos
    /\ CheckUsageLimit(storage, storageFault, now).ret
    /\ Len(storage.log) < MaxLog
    /\ storage' = RecordUsage(storage, storageFault, now)
    /\ screen' = "ANALYZING"
    /\ sampleTimeouts' = sampleTimeouts + 1
    /\ UNCHANGED <<storageFault, now, lastCall, validatorVars, monitorVars,
                   showLimitModal, audioBlob, isRecording, timer, recordingError,
                   uploadedAudioFile, mediaRecorderRef, audioChunksRef, sessions,
                   cameras, analyses, calls>>

\* renderIntro, Try with Sample Data: loadSampleData up to its setTimeout
LoadSampleData ==
    /\ alerts' = NoAlerts
    /\ UNCHANGED chatVars
    /\ screen = "INTRO" /\ ~showLimitModal
    /\ sampleTimeouts < MaxDemos
    /\ screen' = "ANALYZING"
    /\ sampleTimeouts' = sampleTimeouts + 1
    /\ UNCHANGED <<ledgerVars, validatorVars, monitorVars, showLimitModal, audioBlob,
                   isRecording, timer, recordingError, uploadedAudioFile,
                   mediaRecorderRef, audioChunksRef, sessions, cameras, analyses, calls>>

\* the timeout of loadSampleData after 3.5 s: setAnalysisResult(sample),
\* setScreen(RESULTS)
SampleTimeout ==
    /\ alerts' = NoAlerts
    /\ UNCHANGED chatVars
    /\ sampleTimeouts > 0
    /\ sampleTimeouts' = sampleTimeouts - 1
    /\ screen' = "RESULTS"
    /\ UNCHANGED <<ledgerVars, validatorVars, monitorVars, showLimitModal, audioBlob,
                   isRecording, timer, recordingError, uploadedAudioFile,
                   mediaRecorderRef, audioChunksRef, sessions, cameras, analyses, calls>>

\* renderRecording, Back to Home (shown while isRecording is false);
\* renderUpload, close: setScreen(INTRO); renderResults, New Scan:
\* setChatHistory([]) and setScreen(INTRO)
BackToIntro ==
    /\ chatHistory' = IF screen = "RESULTS" THEN <<>> ELSE chatHistory
    /\ UNCHANGED <<sampleTimeouts, chatInput, isChatLoading, isChatRecording,
                   chatMediaRecorderRef, chatAudioChunksRef, chatSessions, chatReplies>>
    /\ alerts' = NoAlerts
    /\ ~showLimitModal
    /\ \/ screen = "RECORDING" /\ ~isRecording
       \/ screen = "UPLOAD_CONFIG"
       \/ screen = "RESULTS"
    /\ screen' = "INTRO"
    /\ UNCHANGED <<ledgerVars, validatorVars, monitorVars, showLimitModal, audioBlob,
                   isRecording, timer, recordingError, uploadedAudioFile,
                   mediaRecorderRef, audioChunksRef, sessions, cameras, analyses, calls>>

\* LimitModal onClose: setShowLimitModal(false)
CloseLimitModal ==
    /\ UNCHANGED <<sampleTimeouts, chatVars>>
    /\ alerts' = NoAlerts
    /\ showLimitModal
    /\ showLimitModal' = FALSE
    /\ UNCHANGED <<ledgerVars, validatorVars, monitorVars, screen, audioBlob,
                   isRecording, timer, recordingError, uploadedAudioFile,
                   mediaRecorderRef, audioChunksRef, sessions, cameras, analyses, calls>>

\* --- recording ----------------------------------------------------------
\* the session slots not in use
FreeSlots == {s \in Slots : sessions[s].phase = "free"}

\* startRecording past the quota gate, up to its await: setRecordingError(null)
\* and getUserMedia is asked
AskMicrophone ==
    /\ recordingError' = NoRecordingError
    /\ sessions' = [sessions EXCEPT
                      ![CHOOSE s \in FreeSlots : \A o \in FreeSlots : s <= o] = NewSession]

StartRecordingRefusedNoReturn ==
    /\ showLimitModal' = TRUE
    /\ FreeSlots # {}
    /\ AskMicrophone

\* startRecording when checkUsageLimit() is false: setShowLimitModal(true); return
StartRecordingRefused ==
    /\ showLimitModal' = TRUE
    /\ UNCHANGED <<recordingError, sessions>>

\* startRecording up to its await: the quota gate, then getUserMedia is asked
StartRecording ==
    /\ UNCHANGED <<sampleTimeouts, chatVars>>
    /\ alerts' = NoAlerts
    /\ screen = "RECORDING" /\ ~isRecording /\ ~showLimitModal
    /\ \E t \in Readings :
          LET r == CheckUsageLimit(storage, storageFault, t)
          IN /\ r.ret => FreeSlots # {}
             /\ now' = t
             /\ storage' = r.storage
             /\ IF ~r.ret
                THEN StartRecordingRefused
                ELSE /\ AskMicrophone
                     /\ UNCHANGED showLimitModal
    /\ UNCHANGED <<storageFault, lastCall, validatorVars, monitorVars, screen, audioBlob,
                   isRecording, timer, uploadedAudioFile, mediaRecorderRef,
                   audioChunksRef, cameras, analyses, calls>>

\* what updateVolume makes of a new analyser, through which no audio has
\* passed yet
FirstFeedback == VolumeFeedback(Runs(0, 0, 0, FrequencyBinCount))

\* what updateVolume makes of the analyser while the microphone is live:
\* of silence, of a low voice, of a good voice
FrameFeedbacks ==
    {VolumeFeedback(Runs(0, 0, v, FrequencyBinCount)) : v \in {0, 20, 60}}

\* a scheduled updateVolume callback runs
FrameRun ==
    /\ rafScheduled > 0
    /\ \E f \in FrameFeedbacks : ShowFeedback(f)
    /\ animationFrameRef' = "live"
    /\ alerts' = NoAlerts
    /\ UNCHANGED <<rafScheduled, ledgerVars, validatorVars, pageVars>>

\* getUserMedia resolves: the rest of startRecording's try block
MicGranted(s) ==
    /\ UNCHANGED <<sampleTimeouts, chatVars>>
    /\ alerts' = NoAlerts
    /\ sessions[s].phase = "armed"
    /\ audioChunksRef' = <<>>
    /\ isRecording' = TRUE
    /\ timer' = TimerBudget
    /\ rafScheduled < MaxFrames
    /\ ShowFeedback(FirstFeedback)
    /\ RequestFrame
    /\ Settle([sessions EXCEPT ![s].phase = "recording", ![s].tracksLive = TRUE],
              s, audioBlob, cameras, analyses, calls)
    /\ UNCHANGED <<ledgerVars, validatorVars, screen, showLimitModal,
                   recordingError, uploadedAudioFile>>

\* getUserMedia resolves and a later statement of the try block throws: the
\* MediaRecorder constructor (nothing is assigned yet), the AudioContext
\* constructor (the recorder is in mediaRecorderRef and the chunk list is
\* reset), or start() (updateVolume has run as well); the catch alerts, and
\* nothing stops the stream
StartFailings == {"MediaRecorder", "AudioContext", "start"}

MicGrantedFails(s) ==
    /\ UNCHANGED <<sampleTimeouts, chatVars>>
    /\ sessions[s].phase = "armed"
    /\ alerts' = <<MicrophoneRequired>>
    /\ \E at \in StartFailings :
          /\ audioChunksRef' = IF at = "MediaRecorder" THEN audioChunksRef ELSE <<>>
          /\ IF at = "start"
             THEN /\ rafScheduled < MaxFrames
                  /\ ShowFeedback(FirstFeedback)
                  /\ RequestFrame
             ELSE UNCHANGED monitorVars
          /\ Settle([sessions EXCEPT ![s].phase = "closed", ![s].tracksLive = TRUE],
                    IF at = "MediaRecorder" THEN mediaRecorderRef ELSE s,
                    audioBlob, cameras, analyses, calls)
    /\ UNCHANGED <<ledgerVars, validatorVars, screen, showLimitModal,
                   isRecording, timer, recordingError, uploadedAudioFile>>

MicDeniedRetrying(s) ==
    /\ sessions[s].phase = "armed"
    /\ alerts' = <<MicrophoneRequired>>
    /\ UNCHANGED <<ledgerVars, validatorVars, monitorVars, pageVars>>

\* getUserMedia rejects: the catch of startRecording alerts
MicDenied(s) ==
    /\ UNCHANGED <<sampleTimeouts, chatVars>>
    /\ sessions[s].phase = "armed"
    /\ alerts' = <<MicrophoneRequired>>
    /\ Settle([sessions EXCEPT ![s].phase = "closed"],
              mediaRecorderRef, audioBlob, cameras, analyses, calls)
    /\ UNCHANGED <<ledgerVars, validatorVars, monitorVars, screen, showLimitModal,
                   isRecording, timer, recordingError, uploadedAudioFile, audioChunksRef>>

\* the recorder mediaRecorderRef.current holds is recording
RefRecording ==
    mediaRecorderRef \in Slots /\ sessions[mediaRecorderRef].phase = "recording"

StopRecordingCallTwice ==
    /\ IF mediaRecorderRef \in Slots /\ isRecording
          /\ sessions[mediaRecorderRef].phase \in {"recording", "stopping", "validating"}
       THEN /\ sessions' = [sessions EXCEPT ![mediaRecorderRef].phase = "stopping"]
            /\ UNCHANGED isRecording
       ELSE UNCHANGED <<sessions, isRecording>>
    /\ UNCHANGED <<ledgerVars, validatorVars, monitorVars, screen, showLimitModal,
                   audioBlob, timer, recordingError, uploadedAudioFile,
                   mediaRecorderRef, audioChunksRef, cameras, analyses, calls>>

\* stopRecording; MediaRecorder.stop() throws on a recorder that is not
\* recording, which ends the handler before setIsRecording
StopRecordingCall ==
    /\ IF mediaRecorderRef # 0 /\ isRecording /\ RefRecording
       THEN /\ sessions' = [sessions EXCEPT ![mediaRecorderRef].phase = "stopping"]
            /\ isRecording' = FALSE
       ELSE UNCHANGED <<sessions, isRecording>>
    /\ UNCHANGED <<ledgerVars, validatorVars, monitorVars, screen, showLimitModal,
                   audioBlob, timer, recordingError, uploadedAudioFile,
                   mediaRecorderRef, audioChunksRef, cameras, analyses, calls>>

\* renderRecording, Stop Early (shown while isRecording)
StopRecording ==
    /\ UNCHANGED <<sampleTimeouts, chatVars>>
    /\ alerts' = NoAlerts
    /\ screen = "RECORDING" /\ isRecording /\ ~showLimitModal
    /\ StopRecordingCall

\* the countdown effect holds an interval from a render with isRecording and
\* timer > 0 until its cleanup at the next change of either
CountdownInterval == isRecording /\ timer > 0

\* the countdown effect: the interval's setTimer(prev => prev - 1)
TimerTickUnguarded ==
    /\ UNCHANGED <<sampleTimeouts, chatVars>>
    /\ alerts' = NoAlerts
    /\ isRecording
    /\ timer' = timer - 1
    /\ UNCHANGED <<ledgerVars, validatorVars, monitorVars, screen, showLimitModal,
                   audioBlob, isRecording, recordingError, uploadedAudioFile,
                   mediaRecorderRef, audioChunksRef, sessions, cameras, analyses, calls>>

TimerTick ==
    /\ UNCHANGED <<sampleTimeouts, chatVars>>
    /\ alerts' = NoAlerts
    /\ isRecording /\ timer > 0
    /\ timer' = timer - 1
    /\ UNCHANGED <<ledgerVars, validatorVars, monitorVars, screen, showLimitModal,
                   audioBlob, isRecording, recordingError, uploadedAudioFile,
                   mediaRecorderRef, audioChunksRef, sessions, cameras, analyses, calls>>

\* the countdown effect at isRecording && timer === 0: stopRecording()
TimerExpired ==
    /\ UNCHANGED <<sampleTimeouts, chatVars>>
    /\ alerts' = NoAlerts
    /\ isRecording /\ timer = 0
    /\ StopRecordingCall

\* renderRecording, Cancel (shown while isRecording): cancelRecording
CancelRecording ==
    /\ UNCHANGED <<sampleTimeouts, chatVars>>
    /\ alerts' = NoAlerts
    /\ screen = "RECORDING" /\ isRecording /\ ~showLimitModal
    /\ IF mediaRecorderRef # 0 /\ ~RefRecording
       THEN \* stop() throws: nothing after it runs
            UNCHANGED <<sessions, isRecording, timer, audioBlob, screen, recordingError,
                        mediaRecorderRef, cameras, analyses, calls>>
       ELSE /\ isRecording' = FALSE
            /\ timer' = TimerBudget
            /\ screen' = "INTRO"
            /\ recordingError' = NoRecordingError
            /\ Settle(IF mediaRecorderRef # 0
                      THEN [sessions EXCEPT ![mediaRecorderRef].phase = "stopping",
                                            ![mediaRecorderRef].tracksLive = FALSE,
                                            ![mediaRecorderRef].cancelled = TRUE]
                      ELSE sessions,
                      mediaRecorderRef, NoBlob, cameras, analyses, calls)
    /\ CancelFrame
    /\ UNCHANGED <<ledgerVars, validatorVars, displayVars, showLimitModal,
                   uploadedAudioFile, audioChunksRef>>

VerdictEffectsKeepingTimer(s, v) ==
    LET sess == [sessions EXCEPT ![s].phase = "closed", ![s].tracksLive = FALSE]
        held == Alive(NoBlob, cameras, analyses)
        id == CHOOSE a \in ArtifactIds \ held : \A o \in ArtifactIds \ held : a <= o
    IN IF ~v.isValid
       THEN /\ recordingError' = v.error
            /\ isRecording' = FALSE
            /\ UNCHANGED timer
            /\ UNCHANGED screen
            /\ Settle(sess, mediaRecorderRef, NoBlob, cameras, analyses, calls)
       ELSE /\ screen' = "FACE_PROMPT"
            /\ UNCHANGED <<recordingError, isRecording, timer>>
            /\ Settle(sess, mediaRecorderRef,
                      [id |-> id, validated |-> TRUE, cancelled |-> sessions[s].cancelled],
                      cameras, analyses, calls)

\* the end of onstop, after await validateAudioBlob: the tracks are stopped and
\* the verdict v on the blob of session s is acted on
VerdictEffects(s, v) ==
    LET sess == [sessions EXCEPT ![s].phase = "closed", ![s].tracksLive = FALSE]
        held == Alive(NoBlob, cameras, analyses)
        id == CHOOSE a \in ArtifactIds \ held : \A o \in ArtifactIds \ held : a <= o
    IN IF ~v.isValid
       THEN /\ recordingError' = v.error
            /\ isRecording' = FALSE
            /\ timer' = TimerBudget
            /\ UNCHANGED screen
            /\ Settle(sess, mediaRecorderRef, NoBlob, cameras, analyses, calls)
       ELSE /\ screen' = "FACE_PROMPT"
            /\ UNCHANGED <<recordingError, isRecording, timer>>
            /\ Settle(sess, mediaRecorderRef,
                      [id |-> id, validated |-> TRUE, cancelled |-> sessions[s].cancelled],
                      cameras, analyses, calls)

\* the recorder's stop task: ondataavailable with what was recorded, then
\* onstop (which first cancels the frame in animationFrameRef) up to await
\* validateAudioBlob, whose answer is fixed by the blob
\* made here.  A 0-byte blob is answered without decoding, so the rest of
\* onstop follows at once; a throwing AudioContext constructor rejects the
\* await and onstop ends there
RecorderStopped(s) ==
    /\ UNCHANGED <<sampleTimeouts, chatVars>>
    /\ alerts' = NoAlerts
    /\ sessions[s].phase = "stopping"
    /\ \E data \in RecordedChunks, ctxThrows \in BOOLEAN :
          LET chunks == IF data.size > 0 THEN Append(audioChunksRef, data)
                        ELSE audioChunksRef
              v == ValidateAudioBlob(chunks, ctxThrows)
          IN /\ audioChunksRef' = chunks
             /\ IF v.threw
                THEN /\ Settle([sessions EXCEPT ![s].phase = "closed"],
                               mediaRecorderRef, audioBlob, cameras, analyses, calls)
                     /\ UNCHANGED <<recordingError, isRecording, timer, screen>>
                ELSE IF BlobSize(chunks) = 0
                THEN VerdictEffects(s, [isValid |-> v.isValid, error |-> v.error])
                ELSE /\ sessions' = [sessions EXCEPT
                                       ![s].phase = "validating",
                                       ![s].pending = [isValid |-> v.isValid,
                                                       error |-> v.error]]
                     /\ UNCHANGED <<recordingError, audioBlob, isRecording, timer, screen,
                                    mediaRecorderRef, cameras, analyses, calls>>
    /\ CancelFrame
    /\ UNCHANGED <<ledgerVars, validatorVars, displayVars, showLimitModal,
                   uploadedAudioFile>>

\* decodeAudioData settles: validateAudioBlob returns and onstop goes on
ValidationDone(s) ==
    /\ UNCHANGED <<sampleTimeouts, chatVars>>
    /\ alerts' = NoAlerts
    /\ sessions[s].phase = "validating"
    /\ VerdictEffects(s, sessions[s].pending)
    /\ UNCHANGED <<ledgerVars, validatorVars, monitorVars, showLimitModal,
                   uploadedAudioFile, audioChunksRef>>

\* --- analysis of a recording --------------------------------------------
\* the persisted list has room for one more entry
LogHasRoom == Len(storage.log) < MaxLog

\* performAnalysis as the closure holding blob runs it, cams being the camera
\* requests left pending: without a blob the throw is caught and the screen
\* ends at INTRO; with one, recordUsage() and the FileReader is started
PerformAnalysis(blob, cams) ==
    IF blob = NoBlob
    THEN /\ screen' = "INTRO"
         /\ Settle(sessions, mediaRecorderRef, audioBlob, cams, analyses, calls)
         /\ UNCHANGED ledgerVars
    ELSE /\ Len(analyses) < MaxPending
         /\ LogHasRoom
         /\ \E t \in Readings :
               /\ now' = t
               /\ storage' = RecordUsage(storage, storageFault, t)
         /\ screen' = "ANALYZING"
         /\ Settle(sessions, mediaRecorderRef, audioBlob, cams,
                   Append(analyses, [blob |-> blob, stage |-> "reading", submits |-> 0]),
                   [calls EXCEPT !.recordUsage[blob.id] = @ + 1])
         /\ UNCHANGED <<storageFault, lastCall>>

\* renderFacePrompt, Skip for now: skipFaceScan
SkipFaceScan ==
    /\ UNCHANGED <<sampleTimeouts, chatVars>>
    /\ alerts' = NoAlerts
    /\ screen = "FACE_PROMPT" /\ ~showLimitModal
    /\ PerformAnalysis(audioBlob, cameras)
    /\ UNCHANGED <<validatorVars, monitorVars, showLimitModal, isRecording, timer,
                   recordingError, uploadedAudioFile, audioChunksRef>>

\* renderFacePrompt, Enable Camera: startCamera up to its await
StartCamera ==
    /\ UNCHANGED <<sampleTimeouts, chatVars>>
    /\ alerts' = NoAlerts
    /\ screen = "FACE_PROMPT" /\ ~showLimitModal
    /\ Len(cameras) < MaxCameras
    /\ screen' = "FACE_CAPTURE"
    /\ cameras' = Append(cameras, audioBlob)
    /\ UNCHANGED <<ledgerVars, validatorVars, monitorVars, showLimitModal, audioBlob,
                   isRecording, timer, recordingError, uploadedAudioFile,
                   mediaRecorderRef, audioChunksRef, sessions, analyses, calls>>

\* the camera is granted: the stream goes to the video element, if mounted
CameraGranted(i) ==
    /\ UNCHANGED <<sampleTimeouts, chatVars>>
    /\ alerts' = NoAlerts
    /\ Settle(sessions, mediaRecorderRef, audioBlob, RemoveAt(cameras, i), analyses, calls)
    /\ UNCHANGED <<ledgerVars, validatorVars, monitorVars, screen, showLimitModal,
                   isRecording, timer, recordingError, uploadedAudioFile, audioChunksRef>>

\* the camera is refused: the catch of startCamera calls performAnalysis(null)
CameraDenied(i) ==
    /\ UNCHANGED <<sampleTimeouts, chatVars>>
    /\ alerts' = NoAlerts
    /\ PerformAnalysis(cameras[i], RemoveAt(cameras, i))
    /\ UNCHANGED <<validatorVars, monitorVars, showLimitModal, isRecording, timer,
                   recordingError, uploadedAudioFile, audioChunksRef>>

\* renderFaceCapture, shutter: captureImage
CaptureImage ==
    /\ UNCHANGED <<sampleTimeouts, chatVars>>
    /\ alerts' = NoAlerts
    /\ screen = "FACE_CAPTURE" /\ ~showLimitModal
    /\ PerformAnalysis(audioBlob, cameras)
    /\ UNCHANGED <<validatorVars, monitorVars, showLimitModal, isRecording, timer,
                   recordingError, uploadedAudioFile, audioChunksRef>>

\* renderFaceCapture, back arrow: stopCameraAndBack
StopCameraAndBack ==
    /\ UNCHANGED <<sampleTimeouts, chatVars>>
    /\ alerts' = NoAlerts
    /\ screen = "FACE_CAPTURE" /\ ~showLimitModal
    /\ screen' = "FACE_PROMPT"
    /\ UNCHANGED <<ledgerVars, validatorVars, monitorVars, showLimitModal, audioBlob,
                   isRecording, timer, recordingError, uploadedAudioFile,
                   mediaRecorderRef, audioChunksRef, sessions, cameras, analyses, calls>>

\* reader.onloadend: analyzeHealth is called with the artifact
ReaderLoaded(i) ==
    /\ UNCHANGED <<sampleTimeouts, chatVars>>
    /\ alerts' = NoAlerts
    /\ analyses[i].stage = "reading"
    /\ analyses' = [analyses EXCEPT ![i].stage = "remote", ![i].submits = @ + 1]
    /\ UNCHANGED <<ledgerVars, validatorVars, monitorVars, screen, showLimitModal,
                   audioBlob, isRecording, timer, recordingError, uploadedAudioFile,
                   mediaRecorderRef, audioChunksRef, sessions, cameras, calls>>

AnalysisDoneRetrying(i) ==
    /\ UNCHANGED <<sampleTimeouts, chatVars>>
    /\ analyses[i].stage = "remote"
    /\ \E ok \in BOOLEAN :
          /\ screen' = IF ok THEN "RESULTS"
                       ELSE IF analyses[i].blob.id = UploadId THEN "UPLOAD_CONFIG"
                       ELSE "INTRO"
          /\ alerts' = IF ok THEN NoAlerts
                       ELSE IF analyses[i].blob.id = UploadId THEN <<UploadFailed>>
                       ELSE <<AnalysisFailed>>
    /\ Settle(sessions, mediaRecorderRef, audioBlob, cameras,
              IF screen' = "RESULTS" THEN RemoveAt(analyses, i)
              ELSE [analyses EXCEPT ![i].stage = "reading"], calls)
    /\ UNCHANGED <<ledgerVars, validatorVars, monitorVars, showLimitModal,
                   isRecording, timer, recordingError, uploadedAudioFile, audioChunksRef>>

\* analyzeHealth settles: RESULTS on success; on failure an alert and INTRO
\* (performAnalysis) or UPLOAD_CONFIG (startAnalysisFromUpload)
AnalysisDone(i) ==
    /\ UNCHANGED <<sampleTimeouts, chatVars>>
    /\ analyses[i].stage = "remote"
    /\ \E ok \in BOOLEAN :
          /\ screen' = IF ok THEN "RESULTS"
                       ELSE IF analyses[i].blob.id = UploadId THEN "UPLOAD_CONFIG"
                       ELSE "INTRO"
          /\ alerts' = IF ok THEN NoAlerts
                       ELSE IF analyses[i].blob.id = UploadId THEN <<UploadFailed>>
                       ELSE <<AnalysisFailed>>
    /\ Settle(sessions, mediaRecorderRef, audioBlob, cameras, RemoveAt(analyses, i), calls)
    /\ UNCHANGED <<ledgerVars, validatorVars, monitorVars, showLimitModal,
                   isRecording, timer, recordingError, uploadedAudioFile, audioChunksRef>>

\* --- upload -------------------------------------------------------------
\* handleAudioFileChange: setUploadedAudioFile(e.target.files[0])
HandleAudioFileChange ==
    /\ UNCHANGED <<sampleTimeouts, chatVars>>
    /\ alerts' = NoAlerts
    /\ screen = "UPLOAD_CONFIG" /\ ~showLimitModal
    /\ \E f \in UploadFiles : uploadedAudioFile' = f
    /\ UNCHANGED <<ledgerVars, validatorVars, monitorVars, screen, showLimitModal,
                   audioBlob, isRecording, timer, recordingError, mediaRecorderRef,
                   audioChunksRef, sessions, cameras, analyses, calls>>

\* renderUpload, Analyze Data: startAnalysisFromUpload with process() up to
\* its first await, which is past recordUsage()
StartAnalysisFromUpload ==
    /\ UNCHANGED <<sampleTimeouts, chatVars>>
    /\ alerts' = NoAlerts
    /\ screen = "UPLOAD_CONFIG" /\ ~showLimitModal
    /\ uploadedAudioFile # NoFile
    /\ \E t \in Readings :
          LET r == CheckUsageLimit(storage, storageFault, t) IN
          /\ r.ret => (Len(analyses) < MaxPending /\ Len(r.storage.log) < MaxLog)
          /\ now' = t
          /\ IF ~r.ret
             THEN /\ showLimitModal' = TRUE
                  /\ storage' = r.storage
                  /\ UNCHANGED <<screen, analyses, calls>>
             ELSE /\ screen' = "ANALYZING"
                  /\ storage' = RecordUsage(r.storage, storageFault, t)
                  /\ calls' = [calls EXCEPT !.recordUsage[UploadId] = @ + 1]
                  /\ analyses' = Append(analyses,
                                        [blob |-> [id |-> UploadId, validated |-> FALSE,
                                                   cancelled |-> FALSE],
                                         stage |-> "reading", submits |-> 0])
                  /\ UNCHANGED showLimitModal
    /\ UNCHANGED <<storageFault, lastCall, validatorVars, monitorVars, audioBlob,
                   isRecording, timer, recordingError, uploadedAudioFile,
                   mediaRecorderRef, audioChunksRef, sessions, cameras>>

\* --- the chat on the results screen ---------------------------------------
MAX_CHAT_TURNS == 5

\* chatHistory.filter(m => m.role === 'user').length
UserMessageCount(history) ==
    Cardinality({i \in 1..Len(history) : history[i] = "user"})

\* renderResults: isChatDisabled, under which the form is not rendered
ChatDisabled == UserMessageCount(chatHistory) >= MAX_CHAT_TURNS

ChatSlots == DOMAIN chatSessions
FreeChatSlots == {s \in ChatSlots : chatSessions[s].phase = "free"}
\* chatMediaRecorderRef.current holding a recorder whose session has ended
StaleChatRef == Cardinality(ChatSlots) + 1

\* the new values of the chat session table and of chatMediaRecorderRef: a
\* session whose onstop has run and whose reader has loaded leaves the table
SettleChat(sess, ref) ==
    /\ chatSessions' = [s \in ChatSlots |->
                           IF sess[s].phase = "done" THEN FreeChatSlot ELSE sess[s]]
    /\ chatMediaRecorderRef' = IF ref \in ChatSlots /\ sess[ref].phase = "done"
                               THEN StaleChatRef ELSE ref

\* renderResults, chat input onChange: setChatInput
TypeChatInput ==
    /\ screen = "RESULTS" /\ ~ChatDisabled
    /\ alerts' = NoAlerts
    /\ chatInput' = "text"
    /\ UNCHANGED <<ledgerVars, validatorVars, monitorVars, flowVars, chatHistory,
                   isChatLoading, isChatRecording, chatMediaRecorderRef,
                   chatAudioChunksRef, chatSessions, chatReplies>>

\* handleChatSubmit up to its await; the send button is disabled while
\* chatInput is blank or isChatLoading
HandleChatSubmit ==
    /\ screen = "RESULTS" /\ ~ChatDisabled
    /\ chatInput # "" /\ ~isChatLoading
    /\ chatReplies < MaxReplies
    /\ alerts' = NoAlerts
    /\ IF UserMessageCount(chatHistory) >= MAX_CHAT_TURNS
       THEN UNCHANGED <<chatHistory, chatInput, isChatLoading, chatReplies>>
       ELSE /\ chatHistory' = Append(chatHistory, "user")
            /\ chatInput' = ""
            /\ isChatLoading' = TRUE
            /\ chatReplies' = chatReplies + 1
    /\ UNCHANGED <<ledgerVars, validatorVars, monitorVars, flowVars, isChatRecording,
                   chatMediaRecorderRef, chatAudioChunksRef, chatSessions>>

\* chatWithHealthAssistant returns (it catches its own errors): the rest of
\* handleChatSubmit or sendAudioMessage
ChatReply ==
    /\ chatReplies > 0
    /\ alerts' = NoAlerts
    /\ chatHistory' = Append(chatHistory, "model")
    /\ isChatLoading' = FALSE
    /\ chatReplies' = chatReplies - 1
    /\ UNCHANGED <<ledgerVars, validatorVars, monitorVars, flowVars, chatInput,
                   isChatRecording, chatMediaRecorderRef, chatAudioChunksRef,
                   chatSessions>>

\* renderResults, mic button onMouseDown / onTouchStart: startChatRecording
\* up to its await
StartChatRecording ==
    /\ screen = "RESULTS" /\ ~ChatDisabled
    /\ FreeChatSlots # {}
    /\ alerts' = NoAlerts
    /\ IF UserMessageCount(chatHistory) >= MAX_CHAT_TURNS
       THEN UNCHANGED chatSessions
       ELSE chatSessions' =
               [chatSessions EXCEPT
                  ![CHOOSE s \in FreeChatSlots : \A o \in FreeChatSlots : s <= o] =
                     [phase |-> "armed", tracksLive |-> FALSE,
                      seen |-> UserMessageCount(chatHistory),
                      released |-> FALSE]]
    /\ UNCHANGED <<ledgerVars, validatorVars, monitorVars, flowVars, chatHistory,
                   chatInput, isChatLoading, isChatRecording, chatMediaRecorderRef,
                   chatAudioChunksRef, chatReplies>>

\* getUserMedia resolves for chat session s: the rest of startChatRecording
ChatMicGranted(s) ==
    /\ chatSessions[s].phase = "armed"
    /\ alerts' = NoAlerts
    /\ chatMediaRecorderRef' = s
    /\ chatAudioChunksRef' = <<>>
    /\ chatSessions' = [chatSessions EXCEPT ![s].phase = "recording",
                                            ![s].tracksLive = TRUE]
    /\ isChatRecording' = TRUE
    /\ UNCHANGED <<ledgerVars, validatorVars, monitorVars, flowVars, chatHistory,
                   chatInput, isChatLoading, chatReplies>>

\* what can throw in startChatRecording once the stream is there
ChatStartFailings == {"MediaRecorder", "start"}

\* getUserMedia resolves for chat session s and the constructor or start()
\* throws: the catch alerts, the stream is left as it is
ChatMicGrantedFails(s) ==
    /\ chatSessions[s].phase = "armed"
    /\ alerts' = <<MicrophoneRequired>>
    /\ \E at \in ChatStartFailings :
          IF at = "MediaRecorder"
          THEN UNCHANGED <<chatMediaRecorderRef, chatAudioChunksRef>>
          ELSE /\ chatMediaRecorderRef' = s
               /\ chatAudioChunksRef' = <<>>
    /\ chatSessions' = [chatSessions EXCEPT ![s].phase = "closed",
                                            ![s].tracksLive = TRUE]
    /\ UNCHANGED <<ledgerVars, validatorVars, monitorVars, flowVars, chatHistory,
                   chatInput, isChatLoading, isChatRecording, chatReplies>>

\* getUserMedia rejects for chat session s: the catch alerts
ChatMicDenied(s) ==
    /\ chatSessions[s].phase = "armed"
    /\ alerts' = <<MicrophoneRequired>>
    /\ SettleChat([chatSessions EXCEPT ![s].phase = "done"], chatMediaRecorderRef)
    /\ UNCHANGED <<ledgerVars, validatorVars, monitorVars, flowVars, chatHistory,
                   chatInput, isChatLoading, isChatRecording, chatAudioChunksRef,
                   chatReplies>>

\* the recorder chatMediaRecorderRef.current holds is recording
ChatRefRecording ==
    chatMediaRecorderRef \in ChatSlots
    /\ chatSessions[chatMediaRecorderRef].phase = "recording"

\* the mic button goes up: every press made so far has had its release
ButtonReleased(sess) ==
    [s \in ChatSlots |-> IF sess[s].phase = "free" THEN sess[s]
                         ELSE [sess[s] EXCEPT !.released = TRUE]]

\* renderResults, mic button onMouseUp / onTouchEnd: stopChatRecording; stop()
\* on a recorder that is not recording ends the handler before
\* setIsChatRecording
StopChatRecording ==
    /\ screen = "RESULTS" /\ ~ChatDisabled
    /\ alerts' = NoAlerts
    /\ IF chatMediaRecorderRef # 0 /\ isChatRecording /\ ChatRefRecording
       THEN /\ chatSessions' = ButtonReleased([chatSessions EXCEPT
                                  ![chatMediaRecorderRef].phase = "stopping"])
            /\ isChatRecording' = FALSE
       ELSE /\ chatSessions' = ButtonReleased(chatSessions)
            /\ UNCHANGED isChatRecording
    /\ UNCHANGED <<ledgerVars, validatorVars, monitorVars, flowVars, chatHistory,
                   chatInput, isChatLoading, chatMediaRecorderRef,
                   chatAudioChunksRef, chatReplies>>

\* the chat recorder's stop task: ondataavailable, then onstop, which makes
\* the blob, starts the FileReader and stops the tracks
ChatRecorderStopped(s) ==
    /\ chatSessions[s].phase = "stopping"
    /\ alerts' = NoAlerts
    /\ \E data \in {EmptyData, GoodVoice} :
          chatAudioChunksRef' = IF data.size > 0 THEN Append(chatAudioChunksRef, data)
                                ELSE chatAudioChunksRef
    /\ chatSessions' = [chatSessions EXCEPT ![s].phase = "reading",
                                            ![s].tracksLive = FALSE]
    /\ UNCHANGED <<ledgerVars, validatorVars, monitorVars, flowVars, chatHistory,
                   chatInput, isChatLoading, isChatRecording, chatMediaRecorderRef,
                   chatReplies>>

\* reader.onloadend of chat session s: sendAudioMessage, with the chatHistory
\* of the render in which the button was pressed, up to its await
ChatReaderLoaded(s) ==
    /\ chatSessions[s].phase = "reading"
    /\ alerts' = NoAlerts
    /\ IF chatSessions[s].seen >= MAX_CHAT_TURNS
       THEN UNCHANGED <<chatHistory, isChatLoading, chatReplies>>
       ELSE /\ chatReplies < MaxReplies
            /\ chatHistory' = Append(chatHistory, "user")
            /\ isChatLoading' = TRUE
            /\ chatReplies' = chatReplies + 1
    /\ SettleChat([chatSessions EXCEPT ![s].phase = "done"], chatMediaRecorderRef)
    /\ UNCHANGED <<ledgerVars, validatorVars, monitorVars, flowVars, chatInput,
                   isChatRecording, chatAudioChunksRef>>

\* ------------------------------------------------------------------------
\* The application as a whole
\* ------------------------------------------------------------------------
\* what localStorage holds when the page is loaded: the list earlier visits
\* of the day left, two or one submissions short of the limit or at it
LoadedStores ==
    {ListValue(<<0, 0, 0>>), ListValue(<<0, 0, 0, 0>>), ListValue(<<0, 0, 0, 0, 0>>)}

Init ==
    /\ now = 0
    /\ storage \in LoadedStores
    /\ storageFault = "none"
    /\ lastCall = NoCall
    /\ testBlob = NoTestBlob
    /\ lastValidation = NoValidation
    /\ MonitorIdle
    /\ AppLoaded

\* (the frames of the signal monitor, which only feed the display, are
\* followed in SpecCapture, the sample demonstration in SpecDemo)
Next ==
    \/ GoRecording
    \/ GoUpload
    \/ BackToIntro
    \/ CloseLimitModal
    \/ StartRecording
    \/ \E s \in Slots : MicGranted(s)
    \/ \E s \in Slots : MicGrantedFails(s)
    \/ \E s \in Slots : MicDenied(s)
    \/ StopRecording
    \/ TimerTick
    \/ TimerExpired
    \/ CancelRecording
    \/ \E s \in Slots : RecorderStopped(s)
    \/ \E s \in Slots : ValidationDone(s)
    \/ SkipFaceScan
    \/ StartCamera
    \/ \E i \in 1..Len(cameras) : CameraGranted(i)
    \/ \E i \in 1..Len(cameras) : CameraDenied(i)
    \/ CaptureImage
    \/ StopCameraAndBack
    \/ \E i \in 1..Len(analyses) : ReaderLoaded(i)
    \/ \E i \in 1..Len(analyses) : AnalysisDone(i)
    \/ HandleAudioFileChange
    \/ StartAnalysisFromUpload

Spec == Init /\ [][Next]_vars

\* ------------------------------------------------------------------------
\* The recording screen on its own, with room for overlapping startRecording
\* calls: what follows an accepted recording is left out
\* ------------------------------------------------------------------------
InitCapture ==
    /\ now = 0
    /\ storage \in LoadedStores
    /\ storageFault = "none"
    /\ lastCall = NoCall
    /\ testBlob = NoTestBlob
    /\ lastValidation = NoValidation
    /\ MonitorIdle
    /\ screen = "INTRO"
    /\ showLimitModal = FALSE
    /\ audioBlob = NoBlob
    /\ isRecording = FALSE
    /\ timer = TimerBudget
    /\ recordingError = NoRecordingError
    /\ uploadedAudioFile = NoFile
    /\ mediaRecorderRef = 0
    /\ audioChunksRef = <<>>
    /\ sessions = [s \in 1..MaxOverlap |-> FreeSlot]
    /\ cameras = <<>>
    /\ analyses = <<>>
    /\ calls = NoCalls
    /\ alerts = NoAlerts
    /\ sampleTimeouts = 0
    /\ ChatIdle

NextCapture ==
    \/ GoRecording
    \/ BackToIntro
    \/ CloseLimitModal
    \/ StartRecording
    \/ \E s \in Slots : MicGranted(s)
    \/ FrameRun
    \/ \E s \in Slots : MicGrantedFails(s)
    \/ \E s \in Slots : MicDenied(s)
    \/ StopRecording
    \/ TimerTick
    \/ TimerExpired
    \/ CancelRecording
    \/ \E s \in Slots : RecorderStopped(s)
    \/ \E s \in Slots : ValidationDone(s)

SpecCapture == InitCapture /\ [][NextCapture]_vars

\* the sample demonstration next to what uses the ledger: the quota gates of
\* the recording and the upload screen, and submissions of uploaded files
NextDemo ==
    \/ GoRecording
    \/ GoUpload
    \/ BackToIntro
    \/ CloseLimitModal
    \/ StartRecording
    \/ \E s \in Slots : MicDenied(s)
    \/ HandleAudioFileChange
    \/ StartAnalysisFromUpload
    \/ \E i \in 1..Len(analyses) : ReaderLoaded(i)
    \/ \E i \in 1..Len(analyses) : AnalysisDone(i)
    \/ LoadSampleData
    \/ SampleTimeout

SpecDemo == Init /\ [][NextDemo]_vars

\* the results screen with its chat, as shown after an analysis or the
\* sample demonstration
InitChat ==
    /\ now = 0
    /\ storage = ListValue(<<0, 0, 0>>)
    /\ storageFault = "none"
    /\ lastCall = NoCall
    /\ testBlob = NoTestBlob
    /\ lastValidation = NoValidation
    /\ MonitorIdle
    /\ screen = "RESULTS"
    /\ showLimitModal = FALSE
    /\ audioBlob = NoBlob
    /\ isRecording = FALSE
    /\ timer = TimerBudget
    /\ recordingError = NoRecordingError
    /\ uploadedAudioFile = NoFile
    /\ mediaRecorderRef = 0
    /\ audioChunksRef = <<>>
    /\ sessions = [s \in 1..MaxSessions |-> FreeSlot]
    /\ cameras = <<>>
    /\ analyses = <<>>
    /\ calls = NoCalls
    /\ alerts = NoAlerts
    /\ sampleTimeouts = 0
    /\ ChatIdle

NextChat ==
    \/ TypeChatInput
    \/ HandleChatSubmit
    \/ ChatReply
    \/ StartChatRecording
    \/ \E s \in ChatSlots : ChatMicGranted(s)
    \/ \E s \in ChatSlots : ChatMicGrantedFails(s)
    \/ \E s \in ChatSlots : ChatMicDenied(s)
    \/ StopChatRecording
    \/ \E s \in ChatSlots : ChatRecorderStopped(s)
    \/ \E s \in ChatSlots : ChatReaderLoaded(s)

SpecChat == InitChat /\ [][NextChat]_vars

\* the chat with what the browser does by itself: a permission request is
\* answered, a stopped recorder gets its stop task, the FileReader loads and
\* chatWithHealthAssistant returns.  Nothing obliges the user to press or
\* release the button or to send a text
SpecChatFair ==
    /\ SpecChat
    /\ \A s \in 1..MaxChatSessions :
          /\ WF_vars(ChatMicGranted(s) \/ ChatMicGrantedFails(s) \/ ChatMicDenied(s))
          /\ WF_vars(ChatRecorderStopped(s))
          /\ WF_vars(ChatReaderLoaded(s))
    /\ WF_vars(ChatReply)

\* the capture screen with what the browser schedules by itself: the 1 Hz
\* interval and the effect at timer 0 run when due, a stopped recorder gets
\* its stop task and decodeAudioData settles.  Nothing obliges the user to
\* press a button or to answer the permission prompt
SpecCaptureFair ==
    /\ SpecCapture
    /\ WF_vars(TimerTick)
    /\ WF_vars(TimerExpired)
    /\ \A s \in 1..MaxOverlap : WF_vars(RecorderStopped(s))
    /\ \A s \in 1..MaxOverlap : WF_vars(ValidationDone(s))

\* ========================================================================
\* Properties
\* ========================================================================

\* a timestamp lies within the trailing 24 hours of instant t
InTrailingDay(ts, t) == t - ts < 86400000

CountInTrailingDay(log, t) ==
    Cardinality({i \in 1..Len(log) : InTrailingDay(log[i], t)})

\* C1: with a working store holding a list of timestamps, checkUsageLimit()
\* returns true if and only if fewer than 5 of the timestamps lie within the
\* trailing 24 hours of the current instant; older timestamps do not count.
C1_QuotaWindow ==
    (lastCall.op = "check" /\ lastCall.pre.kind = "list" /\ lastCall.fault = "none")
        => (lastCall.ret <=> CountInTrailingDay(lastCall.pre.log, lastCall.at) < 5)

\* a check that passed on a list of at least 5 entries because one of them
\* was exactly 24 hours old
C1_Witness ==
    /\ lastCall.op = "check" /\ lastCall.pre.kind = "list" /\ lastCall.fault = "none"
    /\ Len(lastCall.pre.log) >= 5
    /\ \E i \in 1..Len(lastCall.pre.log) : lastCall.at - lastCall.pre.log[i] = 86400000
    /\ lastCall.ret

\* C7: when the persisted value cannot be read (getItem throws), is not valid
\* JSON, or parses to something that is not a list, checkUsageLimit() returns
\* true and no exception reaches its caller.
C7_FailOpen ==
    (lastCall.op = "check"
     /\ (lastCall.fault = "read" \/ lastCall.pre.kind \in {"garbage", "nonlist"}))
        => (lastCall.ret /\ ~lastCall.escaped)

\* a check on a value that parses to a non-list, answered with true
C7_Witness ==
    /\ lastCall.op = "check" /\ lastCall.pre.kind = "nonlist" /\ lastCall.fault = "none"
    /\ lastCall.ret /\ ~lastCall.escaped

\* what a one-part recording is, measured apart from the validator
Decodes(v) == BlobSize(v.chunks) > 0 /\ ~v.ctxThrows /\ v.chunks[1].decodable
SampleCount(v) == Len(v.chunks[1].channelData)
\* duration >= 3.0 s
LongEnough(v) == SampleCount(v) >= 3 * v.chunks[1].sampleRate
\* RMS of the first channel >= 0.02: mean square >= 400 thousandths squared
LoudEnough(v) == SumSquares(v.chunks[1].channelData) >= 400 * SampleCount(v)
\* at least 10% of the samples have |amplitude| > 0.01
SpokenEnough(v) ==
    10 * Cardinality({i \in 1..SampleCount(v) :
                        v.chunks[1].channelData[i] > 10 \/ v.chunks[1].channelData[i] < -10})
        >= SampleCount(v)
Rejected(v, reason) == ~v.threw /\ ~v.isValid /\ v.error = reason

\* C8: validateAudioBlob reports the first failing check in the order empty,
\* decode failure, too short, too quiet, no speech: a 0-byte blob is rejected
\* as empty whatever else holds, an undecodable blob as a decode failure, and
\* a decodable blob shorter than 3 s as too short whether loud or silent.
C8_ValidatorOrder ==
    lastValidation.ran =>
        /\ BlobSize(lastValidation.chunks) = 0 => Rejected(lastValidation, ErrEmpty)
        /\ (BlobSize(lastValidation.chunks) > 0 /\ ~lastValidation.ctxThrows
            /\ ~lastValidation.chunks[1].decodable) => Rejected(lastValidation, ErrDecode)
        /\ (Decodes(lastValidation) /\ ~LongEnough(lastValidation))
              => Rejected(lastValidation, ErrTooShort)
        /\ (Decodes(lastValidation) /\ LongEnough(lastValidation)
            /\ ~LoudEnough(lastValidation)) => Rejected(lastValidation, ErrTooQuiet)
        /\ (Decodes(lastValidation) /\ LongEnough(lastValidation)
            /\ LoudEnough(lastValidation) /\ ~SpokenEnough(lastValidation))
              => Rejected(lastValidation, ErrNoSpeech)

\* a silent recording of 2.5 s (5 samples at 2 per second) rejected as too short
C8_Witness ==
    /\ lastValidation.ran /\ Decodes(lastValidation)
    /\ SampleCount(lastValidation) = 5 /\ lastValidation.chunks[1].sampleRate = 2
    /\ ~LoudEnough(lastValidation) /\ ~SpokenEnough(lastValidation)
    /\ Rejected(lastValidation, ErrTooShort)

\* C9: a decodable non-empty recording with duration >= 3.0 s, RMS >= 0.02 and
\* at least 10% of samples above 0.01 in magnitude is accepted, the threshold
\* values included; one that misses exactly one threshold is rejected with
\* that threshold's reason.
C9_AcceptanceBoundary ==
    (lastValidation.ran /\ Decodes(lastValidation)) =>
        /\ (LongEnough(lastValidation) /\ LoudEnough(lastValidation)
            /\ SpokenEnough(lastValidation))
              => (~lastValidation.threw /\ lastValidation.isValid)
        /\ (~LongEnough(lastValidation) /\ LoudEnough(lastValidation)
            /\ SpokenEnough(lastValidation)) => Rejected(lastValidation, ErrTooShort)
        /\ (LongEnough(lastValidation) /\ ~LoudEnough(lastValidation)
            /\ SpokenEnough(lastValidation)) => Rejected(lastValidation, ErrTooQuiet)
        /\ (LongEnough(lastValidation) /\ LoudEnough(lastValidation)
            /\ ~SpokenEnough(lastValidation)) => Rejected(lastValidation, ErrNoSpeech)

\* accepted at the thresholds: 10 samples, exactly 10% of them speech, and
\* another run lasting exactly 3.0 s
C9_Witness ==
    /\ lastValidation.ran /\ Decodes(lastValidation) /\ lastValidation.isValid
    /\ SampleCount(lastValidation) = 10
    /\ Cardinality({i \in 1..10 : lastValidation.chunks[1].channelData[i] > 10
                                   \/ lastValidation.chunks[1].channelData[i] < -10}) = 1
    /\ 3 * lastValidation.chunks[1].sampleRate <= 10

\* C10: updateVolume classifies the mean magnitude m of the snapshot as good
\* iff m > 30, low iff 10 < m <= 30 and silent iff m <= 10, and sets the
\* message of the class (Perfect volume / Speak louder... / Listening...).
C10_MonitorClasses ==
    recordingQuality # "idle" =>
        LET sum == SumBytes(binData)
            n == Len(binData)
        IN /\ recordingQuality = "good" <=> sum > 30 * n
           /\ recordingQuality = "low" <=> (sum > 10 * n /\ sum <= 30 * n)
           /\ recordingQuality = "silent" <=> sum <= 10 * n
           /\ recordingQuality = "good" => recordingMessage = "Perfect volume"
           /\ recordingQuality = "low" => recordingMessage = "Speak louder..."
           /\ recordingQuality = "silent" => recordingMessage = "Listening..."

\* a snapshot whose mean is exactly 30, classified low
C10_Witness ==
    /\ recordingQuality = "low"
    /\ SumBytes(binData) = 30 * Len(binData)
    /\ recordingMessage = "Speak louder..."

C2_ValidatedBeforeBilling ==
    \A i \in 1..Len(analyses) :
        /\ calls.recordUsage[analyses[i].blob.id] >= 1
        /\ analyses[i].blob.validated

\* C3: recordUsage() is invoked at most once for a recorded artifact, whatever
\* the order of stop, skip, camera answers, capture and back; a rejected
\* recording is no artifact and is never billed.
C3_BilledOnce ==
    /\ \A a \in ArtifactIds : calls.recordUsage[a] <= 1
    /\ \A i \in 1..Len(analyses) :
          analyses[i].blob.id \in ArtifactIds => analyses[i].blob.validated

\* C4: once cancelRecording() has stopped a session, validateAudioBlob is not
\* run on its audio, its blob is not stored in audioBlob, it does not advance
\* the screen to FACE_PROMPT, and no submission or closure holds its blob.
C4_CancelIsFinal ==
    /\ \A s \in Slots : sessions[s].cancelled => sessions[s].phase # "validating"
    /\ ~audioBlob.cancelled
    /\ \A i \in 1..Len(cameras) : ~cameras[i].cancelled
    /\ \A i \in 1..Len(analyses) : ~analyses[i].blob.cancelled

\* C5: after cancelRecording(), and after a stop whose verdict was rejected
\* (recordingError is set until the next start), audioChunksRef is empty, the
\* timer is back at 30 and no track of the session is live.
C5_SessionCleanup ==
    /\ \A s \in Slots :
          sessions[s].cancelled =>
             audioChunksRef = <<>> /\ timer = TimerBudget /\ ~sessions[s].tracksLive
    /\ recordingError # NoRecordingError =>
          /\ audioChunksRef = <<>>
          /\ timer = TimerBudget
          /\ \A s \in Slots : ~sessions[s].tracksLive

\* C6: a startRecording or startAnalysisFromUpload that checkUsageLimit()
\* refuses asks for no device, shows the limit modal, leaves isRecording
\* false (unchanged for the upload), starts no submission and leaves the
\* number of ledger entries of the trailing day as it was.
C6_QuotaBeforeDevice ==
    [][(/\ StartRecording \/ StartAnalysisFromUpload
        /\ ~CheckUsageLimit(storage, storageFault, now').ret)
       => /\ sessions' = sessions
          /\ showLimitModal'
          /\ isRecording' = isRecording
          /\ StartRecording => ~isRecording'
          /\ analyses' = analyses /\ cameras' = cameras /\ calls' = calls
          /\ screen' = screen
          /\ CountInTrailingDay(storage'.log, now')
               = CountInTrailingDay(storage.log, now')]_vars

\* a refused start: the modal is up on the recording screen, the day's five
\* entries are in the ledger and no session has been opened
C6_Witness ==
    /\ showLimitModal
    /\ screen = "RECORDING"
    /\ ~isRecording
    /\ CountInTrailingDay(storage.log, now) >= DAILY_ANALYSIS_LIMIT
    /\ \A s \in Slots : sessions[s].phase = "free"

\* C12: the tracks of a session's stream are stopped once the session has
\* left the armed and recording phases and its onstop handler, if any, has
\* ended: no stream is left live by a session that is closed.
C12_TracksReleased ==
    \A s \in Slots : sessions[s].phase = "closed" => ~sessions[s].tracksLive

\* the sessions that hold or await a stream and have not ended
ActiveSessions ==
    {s \in Slots : sessions[s].phase \in {"armed", "recording", "stopping", "validating"}}

\* C13: at most one capture session is awaiting permission, recording or
\* being finalized at any time.
C13_SingleCaptureSession == Cardinality(ActiveSessions) <= 1

\* C14: when no session is awaiting permission, recording or finalizing and
\* isRecording is false, no updateVolume callback is scheduled and the
\* countdown interval is cleared.
C14_NoOrphanedHandles ==
    (~isRecording /\ ActiveSessions = {})
    => (rafScheduled = 0 /\ ~CountdownInterval)

\* C15: every recorder that has been started is eventually stopped: while
\* it records the countdown runs down from 30 and at 0 stopRecording() stops
\* it, unless a manual stop or a cancel did so before.
C15_EveryRecordingStopped ==
    \A s \in 1..MaxOverlap :
        (sessions[s].phase = "recording") ~> (sessions[s].phase # "recording")

\* C16: when getUserMedia rejects (permission denied, no device), the
\* catch of startRecording raises one alert and nothing else: the request
\* is not made again, the session ends without a recorder, isRecording and
\* timer keep their values and neither the ledger nor the count of
\* recordUsage calls changes.
C16_DenialLeavesIdle ==
    [][\A s \in Slots : MicDenied(s) =>
          /\ alerts' = <<MicrophoneRequired>>
          /\ sessions'[s].phase \notin {"armed", "recording", "stopping", "validating"}
          /\ \A o \in Slots \ {s} : sessions'[o] = sessions[o]
          /\ ~sessions'[s].tracksLive
          /\ isRecording' = isRecording
          /\ timer' = timer
          /\ mediaRecorderRef' = mediaRecorderRef
          /\ storage' = storage
          /\ calls' = calls
          /\ screen' = screen]_vars

\* a denied request: the alert is up, nothing records and no session is left
C16_Witness ==
    /\ alerts = <<MicrophoneRequired>>
    /\ ~isRecording
    /\ timer = TimerBudget
    /\ screen = "RECORDING"
    /\ \A s \in Slots : sessions[s].phase = "free"

\* C17: the sample demonstration works without the ledger and without a
\* submission: Try with Sample Data can be pressed on the intro screen
\* whatever the ledger holds, and neither loadSampleData nor its timeout
\* changes the stored list, reads the clock for it, opens the quota modal,
\* counts a recordUsage call or adds or removes a submission.
C17_SampleOutsideLedger ==
    [][/\ (screen = "INTRO" /\ ~showLimitModal /\ sampleTimeouts < MaxDemos)
             => ENABLED LoadSampleData
       /\ (LoadSampleData \/ SampleTimeout)
             => /\ storage' = storage
                /\ now' = now
                /\ showLimitModal' = showLimitModal
                /\ calls' = calls
                /\ analyses' = analyses]_vars

\* the demonstration running with the day's quota used up
C17_Witness ==
    /\ sampleTimeouts = 1
    /\ screen = "ANALYZING"
    /\ analyses = <<>>
    /\ CountInTrailingDay(storage.log, now) >= DAILY_ANALYSIS_LIMIT

C19_CorruptAsEmpty ==
    (lastCall.fault = "none" /\ lastCall.pre.kind # "list")
    => /\ lastCall.op = "check"
             => lastCall.ret = CheckUsageLimit(ListValue(<<>>), "none", lastCall.at).ret
       /\ lastCall.op = "record"
             => storage = RecordUsage(ListValue(<<>>), "none", lastCall.at)

\* C20: once the user has left the recording screen, which outside a
\* recording is possible only before one has started, no recorder is
\* recording and no countdown runs: a request for the microphone that was
\* pending when the user left starts nothing when it is granted.
C20_NoRecordingAfterLeaving ==
    screen # "RECORDING"
    => /\ \A s \in Slots : sessions[s].phase # "recording"
       /\ ~CountdownInterval

\* C21: while validateAudioBlob is pending on the blob of a stopped
\* recording, the tracks of its stream have already been stopped: onstop
\* releases the device before it hands the blob to the validator.
C21_ReleasedBeforeValidation ==
    \A s \in Slots : sessions[s].phase = "validating" => ~sessions[s].tracksLive

\* the step in which onstop of session s acts on a rejecting verdict: at
\* once for a blob of 0 bytes, else when validateAudioBlob has answered
RejectedStop(s) ==
    \/ /\ RecorderStopped(s)
       /\ BlobSize(audioChunksRef') = 0
    \/ /\ ValidationDone(s)
       /\ ~sessions[s].pending.isValid

\* the reason onstop shows for the rejection of session s
RejectionReason(s) ==
    IF sessions[s].phase = "stopping" THEN ErrEmpty ELSE sessions[s].pending.error

\* C22: when onstop gets a rejecting verdict, audioBlob becomes null,
\* isRecording false and the timer 30, recordingError is the validator's
\* reason, the screen is left as it is, the ledger is not written, no
\* recordUsage call is counted, no submission is made or moved on, and no
\* other session changes.
C22_RejectedStop ==
    [][\A s \in Slots : RejectedStop(s) =>
          /\ audioBlob' = NoBlob
          /\ ~isRecording'
          /\ timer' = TimerBudget
          /\ screen' = screen
          /\ recordingError' = RejectionReason(s)
          /\ recordingError' \in {ErrEmpty, ErrTooShort, ErrTooQuiet, ErrNoSpeech, ErrDecode}
          /\ storage' = storage
          /\ \A a \in DOMAIN calls.recordUsage :
                calls'.recordUsage[a] <= calls.recordUsage[a]
          /\ analyses' = analyses
          /\ \A o \in Slots \ {s} : sessions'[o] = sessions[o]
          /\ sessions'[s].phase \in {"free", "closed"}]_vars

\* 2.5 s of silence were recorded and stopped: too short is shown, on the
\* recording screen, with nothing recording
C22_Witness ==
    /\ recordingError = ErrTooShort
    /\ audioBlob = NoBlob
    /\ ~isRecording
    /\ timer = TimerBudget
    /\ screen = "RECORDING"
    /\ \A s \in Slots : sessions[s].phase = "free"

\* C23: a stopRecording() call, from Stop Early or from the effect at timer
\* 0, changes a session only when isRecording is true and then only by
\* stopping the recorder in mediaRecorderRef, which was recording; a recorder
\* gets its stop task only from recording and its validation only from that
\* stop task, so each recording is stopped, made into a blob and validated at
\* most once.
C23_StoppedOnce ==
    [][/\ (StopRecording \/ TimerExpired)
             => /\ \A s \in Slots :
                      sessions'[s] # sessions[s]
                      => /\ isRecording /\ ~isRecording'
                         /\ s = mediaRecorderRef
                         /\ sessions[s].phase = "recording"
                         /\ sessions'[s] = [sessions[s] EXCEPT !.phase = "stopping"]
                /\ audioBlob' = audioBlob /\ timer' = timer /\ screen' = screen
       /\ \A s \in Slots :
             /\ (sessions'[s].phase = "stopping" /\ sessions[s].phase # "stopping")
                   => sessions[s].phase = "recording"
             /\ (sessions'[s].phase = "validating" /\ sessions[s].phase # "validating")
                   => sessions[s].phase = "stopping"]_vars

\* the countdown has run out and stopped the recorder: isRecording is false
\* at timer 0 and the stop task of the recorder is due
C23_Witness ==
    /\ timer = 0
    /\ ~isRecording
    /\ mediaRecorderRef \in Slots
    /\ sessions[mediaRecorderRef].phase = "stopping"

\* the entries of log that are not older than 24 hours at instant t, in
\* their order
NotOlderThanDay(log, t) ==
    LET Keep(ts) == t - ts <= DayMs IN SelectSeq(log, Keep)

\* the entries of log that are less than 24 hours old at instant t, in
\* their order
YoungerThanDay(log, t) ==
    LET Keep(ts) == t - ts < DayMs IN SelectSeq(log, Keep)

C25_ChatTurnsCapped == UserMessageCount(chatHistory) <= MAX_CHAT_TURNS

\* C26: the persisted list never holds more than DAILY_ANALYSIS_LIMIT
\* timestamps of the trailing 24 hours.
C26_LedgerWithinLimit ==
    CountInTrailingDay(storage.log, now) <= DAILY_ANALYSIS_LIMIT

\* C27: whenever a recorder of the screening flow is recording, isRecording
\* is true, so that Stop Early, Cancel and the countdown reach it.
C27_RecordingIsShown ==
    \A s \in Slots : sessions[s].phase = "recording" => isRecording

\* C28: the timer is an integer from 0 to 30; it goes down only by the
\* interval's step of one, only while isRecording is true and never below 0;
\* and it is 30 when a recording begins.
C28_TimerRange ==
    [][/\ timer' \in 0..TimerBudget
       /\ timer' < timer => (isRecording /\ timer' = timer - 1)
       /\ \A s \in Slots :
             (sessions'[s].phase = "recording" /\ sessions[s].phase # "recording")
             => timer' = TimerBudget]_vars

\* the countdown has run from 30 to 0 with the recorder still recording
C28_Witness ==
    /\ timer = 0
    /\ isRecording
    /\ \E s \in Slots : sessions[s].phase = "recording"

\* C29: a chat recorder whose press has been followed by a release is
\* eventually stopped, whichever of the release and the permission grant came
\* first: its slot is then no longer waiting for the grant, recording or
\* waiting for its stop task.  (A session whose recorder could not be made or
\* started counts as stopped here.)
C29_ReleasedChatRecorderStops ==
    \A s \in 1..MaxChatSessions :
       (chatSessions[s].phase \in {"armed", "recording"} /\ chatSessions[s].released)
       ~> (chatSessions[s].phase \notin {"armed", "recording", "stopping"})

\* C30: on the face screens audioBlob is an artifact (not null) that
\* validateAudioBlob accepted.
C30_FaceScreensHoldAudio ==
    screen \in {"FACE_PROMPT", "FACE_CAPTURE"}
    => (audioBlob # NoBlob /\ audioBlob.validated)

====
